---- MODULE Spec2Model ----
(***************************************************************************)
(* Model of the persona-driven document intelligence pipeline:             *)
(*   chunk_sections.split_into_sections  (Section Builder)                 *)
(*   rank_sections.classify              (Theme Classifier)                *)
(*   rank_sections.rank_sections         (Diversity Selector + Presenter)  *)
(* Texts are modelled by what the code reads of them: their length in      *)
(* characters, the shape and word count of a block's first line, the       *)
(* words they contain, their paragraph/sentence structure, and where each  *)
(* block came from.                                                        *)
(***************************************************************************)
EXTENDS Integers, Sequences, FiniteSets, TLC

VARIABLES
    pc,               \* position of the running function
    \* ---- split_into_sections
    pages,            \* the input page records
    sections,         \* the output list
    current_section,  \* the accumulating section
    content_blocks,   \* the non-empty blocks of the page being processed
    page_idx,         \* number of pages the outer loop has taken
    block_idx,        \* number of blocks the inner loop has taken
    \* ---- classify
    section,          \* the section handed to classify
    persona,          \* the persona of the run
    label,            \* the theme classify returned
    \* ---- the refined_text loop of rank_sections
    paragraphs,       \* refined_text_content.split('\n\n')
    para_i,           \* number of paragraphs the loop has taken
    concise_text_parts,   \* the lengths of the parts collected
    current_len,
    loop_break,       \* the loop was left by its break
    final_refined_text,   \* [len |-> length of the refined text]
    \* ---- rank_sections
    results,          \* the scored pool db.search returned
    max_sections_to_extract,
    chosen,           \* list of (section, score)
    chosen_section_identifiers,
    sec_identifier,   \* the identifier the last scan step computed
    theme_i,          \* number of priority themes Pass 1 has taken
    p2_i,             \* number of pool entries Pass 2 has taken
    extracted,
    detailed,
    \* ---- run_pipeline
    output_file       \* output/output.json: NotWritten or the dumped result

chunkVars == <<pages, sections, current_section, content_blocks, page_idx, block_idx>>
classifyVars == <<section, label>>
refineVars == <<paragraphs, para_i, concise_text_parts, current_len, loop_break,
                final_refined_text>>
rankVars == <<results, max_sections_to_extract, chosen, chosen_section_identifiers,
              sec_identifier, theme_i, p2_i, extracted, detailed>>
vars == <<pc, chunkVars, classifyVars, persona, refineVars, rankVars, output_file>>

\* ------------------------------------------------------------------ helpers

RECURSIVE SumSeq(_)
SumSeq(s) == IF s = <<>> THEN 0 ELSE Head(s) + SumSeq(Tail(s))

Range(s) == {s[i] : i \in 1..Len(s)}

\* All sequences over S of length lo..hi
SeqsOf(S, lo, hi) == UNION {[1..n -> S] : n \in lo..hi}

\* =========================================================================
\*  chunk_sections.py : split_into_sections
\* =========================================================================

MaxPages == 2          \* pages in the input
MaxBlocks == 4         \* raw blocks in the whole input

MIN_NEW_SECTION_CONTENT_LENGTH == 200
MIN_FINAL_SECTION_LENGTH == 80
MERGE_PRIOR_LIMIT == 1000
HEADING_MAX_WORDS == 10
HEADING_MIN_CHARS == 5
HEADING_MAX_CHARS == 41

\* The raw blocks a page's content splits into on "\n\n".  Each stands for a
\* text: len is the length of the stripped block, shape/flen/words describe
\* its first line (what STRICT_HEADING_REGEX and split() see of it).
\*   H     a 10-word Title Case line, 39 characters, nothing after it
\*   W     an 11-word Title Case line, 40 characters, nothing after it
\*   B199, B200, B1000   prose (a sentence, ends with "."), one line
\*   blank a whitespace-only block
BlockKinds ==
    [ H     |-> [len |-> 39,   shape |-> "title", flen |-> 39,   words |-> 10],
      W     |-> [len |-> 40,   shape |-> "title", flen |-> 40,   words |-> 11],
      B199  |-> [len |-> 199,  shape |-> "prose", flen |-> 199,  words |-> 30],
      B200  |-> [len |-> 200,  shape |-> "prose", flen |-> 200,  words |-> 30],
      B1000 |-> [len |-> 1000, shape |-> "prose", flen |-> 1000, words |-> 150],
      blank |-> [len |-> 0,    shape |-> "prose", flen |-> 0,    words |-> 0] ]

KindNames == DOMAIN BlockKinds

Documents == <<"a.pdf", "b.pdf">>

\* A token of a section's content: a block (k = kind, p = index of its page in
\* the input, i = its index among the page's non-empty blocks) or a separator
\* (k = "sp" for " ", k = "nn" for "\n\n").
Blk(k, p, i) == [k |-> k, p |-> p, i |-> i]
Sp == [k |-> "sp", p |-> 0, i |-> 0]
Nn == [k |-> "nn", p |-> 0, i |-> 0]
NoTitle == [k |-> "", p |-> 0, i |-> 0]

TokLen(t) == IF t.k = "sp" THEN 1 ELSE IF t.k = "nn" THEN 2 ELSE BlockKinds[t.k].len

RECURSIVE StrLen(_)
StrLen(c) == IF c = <<>> THEN 0 ELSE TokLen(Head(c)) + StrLen(Tail(c))

\* " ".join(blocks)  (.strip() changes nothing: every block is stripped and non-empty)
RECURSIVE JoinSp(_)
JoinSp(bs) ==
    IF bs = <<>> THEN <<>>
    ELSE IF Len(bs) = 1 THEN <<bs[1]>>
    ELSE <<bs[1], Sp>> \o JoinSp(Tail(bs))

\* [block.strip() for block in page["content"].split('\n\n') if block.strip()]
RECURSIVE NonBlank(_, _, _)
NonBlank(raw, p, n) ==
    IF raw = <<>> THEN <<>>
    ELSE IF BlockKinds[Head(raw)].len = 0 THEN NonBlank(Tail(raw), p, n)
    ELSE <<Blk(Head(raw), p, n + 1)>> \o NonBlank(Tail(raw), p, n + 1)

ContentBlocks(p) == NonBlank(pages[p].content, p, 0)

\* STRICT_HEADING_REGEX.fullmatch(first_line): Title Case / ALL CAPS of 5..41
\* characters with no sentence punctuation (numbered headings are not drawn)
RegexFullMatch(k) ==
    /\ BlockKinds[k].shape \in {"title", "caps"}
    /\ BlockKinds[k].flen >= HEADING_MIN_CHARS
    /\ BlockKinds[k].flen <= HEADING_MAX_CHARS

\* mutant: the word-count heuristic rejects 10-word lines too
IsPotentialTitle_Reject10(k) ==
    RegexFullMatch(k) /\ ~(BlockKinds[k].words >= HEADING_MAX_WORDS)

\* is_potential_title after the word-count heuristic
IsPotentialTitle(k) ==
    RegexFullMatch(k) /\ ~(BlockKinds[k].words > HEADING_MAX_WORDS)

\* mutant: a heading always finalizes the accumulating section
StartsNewSection_Always(combined_content_len) == TRUE

\* mutant: strictly more than the threshold is needed
StartsNewSection_Strict(combined_content_len) ==
    combined_content_len > MIN_NEW_SECTION_CONTENT_LENGTH

\* combined_content_len >= MIN_NEW_SECTION_CONTENT_LENGTH
StartsNewSection(combined_content_len) ==
    combined_content_len >= MIN_NEW_SECTION_CONTENT_LENGTH

NewCurrent(p) ==
    [title |-> NoTitle, content_blocks |-> <<>>,
     page_number |-> pages[p].page_number, document |-> pages[p].document]

Finalized(cur) ==
    [title |-> cur.title, content |-> JoinSp(cur.content_blocks),
     page_number |-> cur.page_number, document |-> cur.document]

\* the body of "for block_idx, block in enumerate(content_blocks)":
\* the pair <<sections, current_section>> after the block
BlockStep(secs, cur, block) ==
    IF IsPotentialTitle(block.k)
    THEN IF StartsNewSection(StrLen(JoinSp(cur.content_blocks)))
         THEN <<Append(secs, Finalized(cur)),
                [title |-> block, content_blocks |-> <<block>>,
                 page_number |-> cur.page_number, document |-> cur.document]>>
         ELSE IF cur.title = NoTitle /\ cur.content_blocks = <<>>
              THEN <<secs, [cur EXCEPT !.title = block,
                                       !.content_blocks = Append(@, block)]>>
              ELSE <<secs, [cur EXCEPT !.content_blocks = Append(@, block)]>>
    ELSE <<secs, [cur EXCEPT !.content_blocks = Append(@, block)]>>

\* len(final_section_content) < MIN_FINAL_SECTION_LENGTH
IsShortTail(n) == n < MIN_FINAL_SECTION_LENGTH

\* len(sections[-1]["content"]) < 1000
PriorAcceptsMerge(prior_len) == prior_len < MERGE_PRIOR_LIMIT

\* mutant: a page's last content is kept only from the minimum length on
HasFinalContent_LongOnly(final) == StrLen(final) >= MIN_FINAL_SECTION_LENGTH

\* "if final_section_content:" at the end of a page
HasFinalContent(final) == StrLen(final) > 0

\* the end-of-page disposition of the accumulating section: the new sections
EndOfPage(secs, cur) ==
    LET final == JoinSp(cur.content_blocks)
        asSection == [title |-> cur.title, content |-> final,
                      page_number |-> cur.page_number, document |-> cur.document]
    IN  IF ~HasFinalContent(final) THEN secs
        ELSE IF IsShortTail(StrLen(final)) /\ secs # <<>>
             THEN IF PriorAcceptsMerge(StrLen(secs[Len(secs)].content))
                  THEN [secs EXCEPT ![Len(secs)].content = @ \o <<Nn>> \o final]
                  ELSE Append(secs, asSection)
             ELSE IF /\ HasFinalContent(final)
                     /\ (StrLen(final) >= MIN_FINAL_SECTION_LENGTH \/ secs = <<>>)
                  THEN Append(secs, asSection)
                  ELSE secs

\* ---- inputs: page records as extract_text_from_pdf produces them: the pages
\* of one document are contiguous and numbered upwards, every page has content
\* the <<document, page_number>> of n pages: the first page is page 1 of the
\* first document, each later page is the next page of the same document or
\* page 1 of the next document
RECURSIVE PageLabels(_)
PageLabels(n) ==
    IF n = 0 THEN {<<>>}
    ELSE IF n = 1 THEN {<< <<1, 1>> >>}
    ELSE UNION {{Append(ls, <<ls[n-1][1], ls[n-1][2] + 1>>)} \cup
                (IF ls[n-1][1] < Len(Documents)
                 THEN {Append(ls, <<ls[n-1][1] + 1, 1>>)} ELSE {}) :
                ls \in PageLabels(n - 1)}

\* the numbers of raw blocks of n pages: each page has at least one
PageSizes(n) == {sz \in [1..n -> 1..MaxBlocks] : SumSeq(sz) <= MaxBlocks}

\* the pages labelled ls, of sizes sz, cut from the raw blocks flat
CutPages(ls, sz, flat) ==
    [i \in 1..Len(ls) |->
        [document |-> Documents[ls[i][1]],
         page_number |-> ls[i][2],
         content |-> SubSeq(flat, SumSeq(SubSeq(sz, 1, i - 1)) + 1,
                                  SumSeq(SubSeq(sz, 1, i)))]]

NoSection == [title |-> {}, content |-> {}]

NoText == [len |-> 0]

\* output/output.json does not exist
NotWritten == <<>>

RankIdle ==
    /\ results = <<>> /\ max_sections_to_extract = 0 /\ chosen = <<>>
    /\ chosen_section_identifiers = {} /\ sec_identifier = <<>>
    /\ theme_i = 0 /\ p2_i = 0 /\ extracted = <<>> /\ detailed = <<>>

RefineIdle ==
    /\ paragraphs = <<>> /\ para_i = 0 /\ concise_text_parts = <<>>
    /\ current_len = 0 /\ loop_break = FALSE /\ final_refined_text = NoText

IdleSection == [title |-> NoTitle, content_blocks |-> <<>>, page_number |-> 0, document |-> ""]

ChunkInit ==
    /\ pc = "chunk_page"
    /\ \E n \in 0..MaxPages : \E ls \in PageLabels(n) : \E sz \in PageSizes(n) :
          \E flat \in [1..SumSeq(sz) -> KindNames] : pages = CutPages(ls, sz, flat)
    /\ sections = <<>>
    /\ current_section = IdleSection
    /\ content_blocks = <<>>
    /\ page_idx = 0
    /\ block_idx = 0
    /\ section = NoSection /\ label = "" /\ persona = ""
    /\ RefineIdle
    /\ RankIdle
    /\ output_file = NotWritten

\* for page in pages: split the page, start an empty current_section
StartPage ==
    /\ pc = "chunk_page"
    /\ page_idx < Len(pages)
    /\ page_idx' = page_idx + 1
    /\ content_blocks' = ContentBlocks(page_idx + 1)
    /\ current_section' = NewCurrent(page_idx + 1)
    /\ block_idx' = 0
    /\ pc' = "chunk_block"
    /\ UNCHANGED <<pages, sections, classifyVars, persona, output_file, refineVars, rankVars>>

\* one iteration of the block loop
ProcessBlock ==
    /\ pc = "chunk_block"
    /\ block_idx < Len(content_blocks)
    /\ LET r == BlockStep(sections, current_section, content_blocks[block_idx + 1])
       IN  sections' = r[1] /\ current_section' = r[2]
    /\ block_idx' = block_idx + 1
    /\ UNCHANGED <<pc, pages, content_blocks, page_idx, classifyVars, persona, output_file, refineVars, rankVars>>

\* after the block loop: dispose of the accumulating section
EndPage ==
    /\ pc = "chunk_block"
    /\ block_idx = Len(content_blocks)
    /\ sections' = EndOfPage(sections, current_section)
    /\ pc' = "chunk_page"
    /\ UNCHANGED <<pages, current_section, content_blocks, page_idx, block_idx, classifyVars, persona, output_file, refineVars, rankVars>>

\* return sections
ChunkReturn ==
    /\ pc = "chunk_page"
    /\ page_idx = Len(pages)
    /\ pc' = "chunk_done"
    /\ UNCHANGED <<chunkVars, classifyVars, persona, output_file, refineVars, rankVars>>

ChunkNext == StartPage \/ ProcessBlock \/ EndPage \/ ChunkReturn

SpecChunk == ChunkInit /\ [][ChunkNext]_vars

\* ------------------------------------------------- properties of the builder

IsBlockTok(t) == t.k \notin {"sp", "nn"}

LastSection == sections[Len(sections)]

\* the block loop of the current page is over and EndPage is next
AtEndOfPage == pc = "chunk_block" /\ block_idx = Len(content_blocks)

\* the page being processed has a single non-empty block, a 10-word
\* heading-shaped line with nothing after it
HeadingOnlyPage ==
    /\ pc = "chunk_block"
    /\ Len(content_blocks) = 1
    /\ RegexFullMatch(content_blocks[1].k)
    /\ BlockKinds[content_blocks[1].k].words = 10
    /\ BlockKinds[content_blocks[1].k].len = BlockKinds[content_blocks[1].k].flen

\* C5: every block in a section's content comes from the section's own page
\* of the section's own document.
C5_SinglePage ==
    \A s \in 1..Len(sections) : \A j \in 1..Len(sections[s].content) :
        LET t == sections[s].content[j] IN
        IsBlockTok(t) =>
            /\ pages[t.p].document = sections[s].document
            /\ pages[t.p].page_number = sections[s].page_number

\* C6: every section in the output list has non-empty content, at every point
\* of the run and in the returned list.
C6_NonEmptyContent ==
    \A s \in 1..Len(sections) : StrLen(sections[s].content) > 0

\* a returned list holding a section finalized mid-page by a heading, a section
\* finalized at the end of a page, and a section extended by an end-of-page merge
C6_Witness ==
    /\ pc = "chunk_done"
    /\ Len(sections) >= 2
    /\ sections[1].page_number = sections[2].page_number
    /\ sections[1].document = sections[2].document
    /\ \E s \in 1..Len(sections) : Nn \in Range(sections[s].content)

C8_SplitIffAtLeast200 ==
    [][ (/\ pc = "chunk_block"
         /\ block_idx < Len(content_blocks)
         /\ IsPotentialTitle(content_blocks[block_idx + 1].k))
        =>
        LET block == content_blocks[block_idx + 1]
            acc == StrLen(JoinSp(current_section.content_blocks))
            split == /\ sections' = Append(sections, Finalized(current_section))
                     /\ current_section'.title = block
                     /\ current_section'.content_blocks = <<block>>
            absorbed == /\ sections' = sections
                        /\ current_section'.content_blocks =
                               Append(current_section.content_blocks, block)
        IN  /\ split <=> acc >= 200
            /\ ~split => absorbed
            /\ acc = 199 => ~split
            /\ acc = 200 => split ]_vars

\* a section was finalized mid-page with exactly 200 characters accumulated and
\* the heading that followed started the next one
C8_Witness ==
    /\ pc = "chunk_block"
    /\ block_idx >= 2
    /\ sections # <<>>
    /\ StrLen(LastSection.content) = 200
    /\ LastSection.page_number = current_section.page_number
    /\ current_section.title = content_blocks[block_idx]
    /\ current_section.content_blocks = <<content_blocks[block_idx]>>

\* a heading met with 199 characters accumulated was absorbed as content
C8_Witness199 ==
    /\ pc = "chunk_block"
    /\ block_idx = 2
    /\ StrLen(JoinSp(<<current_section.content_blocks[1]>>)) = 199
    /\ IsPotentialTitle(content_blocks[2].k)
    /\ Len(current_section.content_blocks) = 2

\* the page's last content, as EndPage finds it
FinalContent == JoinSp(current_section.content_blocks)

\* EndPage is next and the page's last content is non-empty, shorter than 80
\* characters, and a section has been finalized before
ShortTailAfterPrior ==
    /\ AtEndOfPage
    /\ sections # <<>>
    /\ StrLen(FinalContent) > 0
    /\ StrLen(FinalContent) < 80

\* C13: every document of the input with a page that has a non-empty block has
\* a section carrying its name in the returned list, wherever the document
\* stands in the input.
C13_EveryDocumentHasSection ==
    pc = "chunk_done" =>
        \A p \in 1..Len(pages) :
            ContentBlocks(p) # <<>> =>
                \E s \in 1..Len(sections) : sections[s].document = pages[p].document

\* C14 (as claimed): a short end-of-page content met after a finalized section
\* becomes a section of its own only when the last section's content is longer
\* than 1000 characters; otherwise (1000 characters included) it is appended to
\* the last section after a blank line.
C14_MergeUnlessOver1000 ==
    [][ ShortTailAfterPrior =>
          IF StrLen(LastSection.content) > 1000
          THEN sections' = Append(sections, Finalized(current_section))
          ELSE sections' = [sections EXCEPT ![Len(sections)].content =
                                @ \o <<Nn>> \o FinalContent] ]_vars

\* the blocks of a content, separators left out
BlocksOf(content) == SelectSeq(content, IsBlockTok)

\* the blocks of the first n sections of secs, in order
RECURSIVE OutputBlocks(_, _)
OutputBlocks(secs, n) ==
    IF n = 0 THEN <<>> ELSE OutputBlocks(secs, n - 1) \o BlocksOf(secs[n].content)

\* the non-empty blocks of the first n input pages, in order
RECURSIVE InputBlocks(_)
InputBlocks(n) ==
    IF n = 0 THEN <<>> ELSE InputBlocks(n - 1) \o ContentBlocks(n)

\* C15: the blocks read across the sections in list order are the non-empty
\* blocks of the pages taken so far, each once and in input order; so for the
\* returned list and the whole input.
C15_BlocksPreserved ==
    pc \in {"chunk_page", "chunk_done"} =>
        /\ OutputBlocks(sections, Len(sections)) = InputBlocks(page_idx)
        /\ pc = "chunk_done" => page_idx = Len(pages)

\* a returned list of two sections over two pages, the first extended by an
\* end-of-page merge, holding three blocks or more
C15_Witness ==
    /\ pc = "chunk_done"
    /\ Len(pages) = 2
    /\ Len(sections) = 2
    /\ Nn \in Range(sections[1].content)
    /\ Len(InputBlocks(2)) >= 3
    /\ \E p \in 1..2 : "blank" \in Range(pages[p].content)

\* =========================================================================
\*  rank_sections.py : classify
\* =========================================================================

MaxWords == 2          \* sample words in a section's content

\* Sample words texts are made of, and the keywords of the classifier that
\* occur in each (lowercased) word as a substring.
Lower ==
    [ Introduction |-> "introduction", SUMMARY |-> "summary",
      concepts |-> "concepts", Methods |-> "methods", Database |-> "database",
      Tips |-> "tips", Example |-> "example", conclusion |-> "conclusion",
      Contact |-> "contact", index |-> "index", City |-> "city",
      nightlife |-> "nightlife", food |-> "food", Hotel |-> "hotel",
      multiple |-> "multiple", beach |-> "beach" ]

KeywordsIn ==
    [ introduction |-> {"introduction"}, summary |-> {"summary"},
      concepts |-> {"concept"}, methods |-> {"method"}, database |-> {"data"},
      tips |-> {"tip", "tips"}, example |-> {"example"},
      conclusion |-> {"conclusion"}, contact |-> {"contact"},
      index |-> {"index"}, city |-> {"city"}, nightlife |-> {"nightlife"},
      food |-> {"food"}, hotel |-> {"hotel"}, multiple |-> {"tip"},
      beach |-> {} ]

Vocabulary == DOMAIN Lower

\* persona.lower(), and the lowered personas "travel planner" is a substring of
Personas == {"Travel Planner", "Senior TRAVEL PLANNER", "HR Professional"}

PersonaLower ==
    [ p \in Personas |->
        CASE p = "Travel Planner" -> "travel planner"
          [] p = "Senior TRAVEL PLANNER" -> "senior travel planner"
          [] p = "HR Professional" -> "hr professional" ]

ContainsTravelPlanner(lowered) ==
    lowered \in {"travel planner", "senior travel planner"}

\* GENERAL_CATEGORIES_KEYWORDS, in the dict's insertion order
GENERAL_CATEGORIES_KEYWORDS ==
    << [category |-> "introduction_overview",
        keywords |-> {"introduction", "overview", "abstract", "summary",
                      "purpose", "scope", "background", "context"}],
       [category |-> "key_concepts_definitions",
        keywords |-> {"define", "concept", "definition", "key terms",
                      "principles", "fundamentals"}],
       [category |-> "methods_procedures_steps",
        keywords |-> {"how to", "method", "steps", "procedure", "process",
                      "approach", "guidelines", "instructions", "guide",
                      "implementation"}],
       [category |-> "results_findings_data",
        keywords |-> {"results", "findings", "data", "analysis", "outcome",
                      "statistics", "performance"}],
       [category |-> "recommendations_solutions",
        keywords |-> {"recommendation", "solution", "advice", "suggestion",
                      "best practices", "tips", "strategy", "plan", "roadmap"}],
       [category |-> "examples_applications",
        keywords |-> {"example", "case study", "application", "use case",
                      "scenario", "demonstration"}],
       [category |-> "conclusion_summary",
        keywords |-> {"conclusion", "summary", "final thoughts", "in brief",
                      "key takeaways", "outlook"}],
       [category |-> "contact_information",
        keywords |-> {"contact", "address", "phone", "email", "website",
                      "support"}],
       [category |-> "appendix_references",
        keywords |-> {"appendix", "references", "bibliography", "glossary",
                      "index"}] >>

\* the if-chain of the 'Travel Planner' fallback, in its order
TRAVEL_KEYWORDS ==
    << [category |-> "travel_cities",
        keywords |-> {"city", "destination", "town", "regions"}],
       [category |-> "travel_activities",
        keywords |-> {"activity", "entertainment", "nightlife", "attraction",
                      "excursion"}],
       [category |-> "travel_food",
        keywords |-> {"cuisine", "food", "restaurant", "dining"}],
       [category |-> "travel_accommodation",
        keywords |-> {"hotel", "accommodation", "stay"}],
       [category |-> "travel_tips_practical",
        keywords |-> {"tip", "packing", "safety", "transport"}] >>

\* (section.get("title", "") + " " + section["content"]).lower(): the lowered
\* words of the title and of the content
TitleAndContent(sec) == {Lower[w] : w \in sec.title \cup sec.content}

\* keyword in title_and_content
KeywordIn(keyword, text) == \E w \in text : keyword \in KeywordsIn[w]

\* any(keyword in title_and_content for keyword in keywords)
AnyKeyword(keywords, text) == \E k \in keywords : KeywordIn(k, text)

\* the category of the first entry of the table with a keyword in the text,
\* "" when no entry has one
RECURSIVE FirstMatch(_, _)
FirstMatch(table, text) ==
    IF table = <<>> THEN ""
    ELSE IF AnyKeyword(Head(table).keywords, text) THEN Head(table).category
    ELSE FirstMatch(Tail(table), text)

\* mutant: the persona-specific table is consulted before the general one
Classify_TravelFirst(sec, pers) ==
    LET text == TitleAndContent(sec)
        general == FirstMatch(GENERAL_CATEGORIES_KEYWORDS, text)
        travel == IF ContainsTravelPlanner(PersonaLower[pers])
                  THEN FirstMatch(TRAVEL_KEYWORDS, text) ELSE ""
    IN  IF travel # "" THEN travel
        ELSE IF general # "" THEN general
        ELSE "other_general"

\* classify(section)
Classify(sec, pers) ==
    LET text == TitleAndContent(sec)
        general == FirstMatch(GENERAL_CATEGORIES_KEYWORDS, text)
        travel == IF ContainsTravelPlanner(PersonaLower[pers])
                  THEN FirstMatch(TRAVEL_KEYWORDS, text) ELSE ""
    IN  IF general # "" THEN general
        ELSE IF travel # "" THEN travel
        ELSE "other_general"

SmallSubsets(S, n) == {x \in SUBSET S : Cardinality(x) <= n}

ClassifyInit ==
    /\ pc = "classify_call"
    /\ section \in [title : SmallSubsets(Vocabulary, 1),
                    content : SmallSubsets(Vocabulary, MaxWords)]
    /\ persona \in Personas
    /\ label = ""
    /\ pages = <<>> /\ sections = <<>> /\ current_section = IdleSection
    /\ content_blocks = <<>> /\ page_idx = 0 /\ block_idx = 0
    /\ RefineIdle
    /\ RankIdle
    /\ output_file = NotWritten

\* theme = classify(sec_data)
ClassifyCall ==
    /\ pc = "classify_call"
    /\ label' = Classify(section, persona)
    /\ pc' = "classify_done"
    /\ UNCHANGED <<section, persona, output_file, chunkVars, refineVars, rankVars>>

ClassifyNext == ClassifyCall

SpecClassify == ClassifyInit /\ [][ClassifyNext]_vars

\* ------------------------------------------------ properties of the classifier

\* the general categories in the order the claim gives
ClaimedGeneralOrder ==
    << "introduction_overview", "key_concepts_definitions",
       "methods_procedures_steps", "results_findings_data",
       "recommendations_solutions", "examples_applications",
       "conclusion_summary", "contact_information", "appendix_references" >>

TravelLabels ==
    {"travel_cities", "travel_activities", "travel_food",
     "travel_accommodation", "travel_tips_practical"}

\* the keywords of a general category, by its name
KeywordsOf(cat) ==
    (CHOOSE e \in Range(GENERAL_CATEGORIES_KEYWORDS) : e.category = cat).keywords

CategoryMatches(cat, sec) == AnyKeyword(KeywordsOf(cat), TitleAndContent(sec))

PersonaIsTravelPlanner(p) == p \in {"Travel Planner", "Senior TRAVEL PLANNER"}

\* C9: classify returns the first general category, in the fixed order, that
\* has a keyword match; a travel_* label only when no general category matches
\* and the persona contains "travel planner" whatever its case; in every other
\* case other_general.
C9_ClassifyPriority ==
    pc = "classify_done" =>
        LET hits == {i \in 1..Len(ClaimedGeneralOrder) :
                        CategoryMatches(ClaimedGeneralOrder[i], section)}
        IN  /\ hits # {} =>
                label = ClaimedGeneralOrder[CHOOSE i \in hits : \A j \in hits : i <= j]
            /\ label \in TravelLabels =>
                hits = {} /\ PersonaIsTravelPlanner(persona)
            /\ (hits = {} /\ label \notin TravelLabels) => label = "other_general"
            /\ (hits = {} /\ ~PersonaIsTravelPlanner(persona)) => label = "other_general"

\* a text with both a general keyword ("tips") and travel keywords, classified
\* for a travel planner: the general category won
C9_Witness ==
    /\ pc = "classify_done"
    /\ persona = "Senior TRAVEL PLANNER"
    /\ section.content = {"Tips", "City"}
    /\ label = "recommendations_solutions"

\* a text with only a travel keyword got its travel label for a travel planner
C9_WitnessTravel ==
    /\ pc = "classify_done"
    /\ persona = "Travel Planner"
    /\ section.content = {"multiple"}
    /\ section.title = {}
    /\ label = "travel_tips_practical"

\* =========================================================================
\*  rank_sections.py : the refined_text of a selected section
\* =========================================================================

MaxParas == 3          \* paragraphs in a section's content

TARGET_LEN == 220
MIN_CONTENT_LENGTH == 150
SNIPPET_MIN_WORDS == 3
ELLIPSIS_LEN == 3

\* A paragraph is a sequence of words separated by single spaces; a word has
\* a length and may end with a sentence terminator (. ! ?).
Wd(n, t) == [len |-> n, term |-> t]

\*   s50   one sentence, 50 characters
\*   s160  two sentences, 79 and 80 characters
\*   s300  three sentences, 99, 99 and 100 characters
\*   n249  five words of 49 characters, no terminator
\*   l230  one unbroken 230-character sentence
\*   blank a whitespace-only paragraph
ParaKinds ==
    [ s50   |-> <<Wd(24, FALSE), Wd(25, TRUE)>>,
      s160  |-> <<Wd(79, TRUE), Wd(80, TRUE)>>,
      s300  |-> <<Wd(99, TRUE), Wd(99, TRUE), Wd(100, TRUE)>>,
      n249  |-> <<Wd(49, FALSE), Wd(49, FALSE), Wd(49, FALSE), Wd(49, FALSE),
                  Wd(49, FALSE)>>,
      l230  |-> <<Wd(230, TRUE)>>,
      blank |-> <<>> ]

ParaNames == DOMAIN ParaKinds

\* len(para) for a stripped paragraph
ParaLen(para) ==
    IF para = <<>> THEN 0
    ELSE SumSeq([i \in 1..Len(para) |-> para[i].len]) + (Len(para) - 1)

\* len(sec["content"].strip()): the paragraphs joined by "\n\n"
ContentLen(paras) ==
    IF paras = <<>> THEN 0
    ELSE SumSeq([i \in 1..Len(paras) |-> ParaLen(paras[i])]) + 2 * (Len(paras) - 1)

\* re.findall(r'[^.!?]*[.!?]', para): for each match its length (raw) and the
\* length of its strip() (stripped); a match that does not start the
\* paragraph starts with the space after the previous terminator
RECURSIVE Sentences(_, _, _)
Sentences(para, from, i) ==
    IF i > Len(para) THEN <<>>
    ELSE IF para[i].term
         THEN LET stripped == SumSeq([j \in 1..(i - from + 1) |-> para[from + j - 1].len])
                              + (i - from)
              IN  <<[raw |-> stripped + (IF from = 1 THEN 0 ELSE 1),
                     stripped |-> stripped]>>
                  \o Sentences(para, i + 1, i + 1)
         ELSE Sentences(para, from, i + 1)

\* the length of temp_sentence_summary after the sentence loop
RECURSIVE PackSentences(_, _, _)
PackSentences(sents, cur, temp) ==
    IF sents = <<>> THEN temp
    ELSE IF cur + temp + Head(sents).raw <= TARGET_LEN
         THEN PackSentences(Tail(sents), cur, temp + Head(sents).stripped + 1)
         ELSE temp

\* the character at which word i of a paragraph starts (0-based)
WordStart(para, i) == SumSeq([j \in 1..(i - 1) |-> para[j].len + 1])

\* para[:n].strip(): its length and its number of words
Snippet(para, n) ==
    LET inside == {i \in 1..Len(para) : WordStart(para, i) < n}
        last == CHOOSE i \in inside : \A j \in inside : j <= i
    IN  IF inside = {} THEN [len |-> 0, words |-> 0]
        ELSE [len |-> IF n <= WordStart(para, last) + para[last].len
                      THEN n ELSE WordStart(para, last) + para[last].len,
              words |-> Cardinality(inside)]

\* current_len + len(para) <= target_len or not concise_text_parts
TakesWholeParagraph(cur, para_len, parts) ==
    cur + para_len <= TARGET_LEN \/ parts = <<>>

\* one iteration of "for para in paragraphs" on st = [parts, cur, brk]
RefineStep(st, para) ==
    IF para = <<>> THEN st
    ELSE IF TakesWholeParagraph(st.cur, ParaLen(para), st.parts)
    THEN [st EXCEPT !.parts = Append(@, ParaLen(para)),
                    !.cur = @ + ParaLen(para) + 2]
    ELSE LET temp == PackSentences(Sentences(para, 1, 1), st.cur, 0)
             snippet == Snippet(para, TARGET_LEN - st.cur)
         IN  IF temp > 0
             THEN [st EXCEPT !.parts = Append(@, temp - 1), !.brk = TRUE]
             ELSE IF st.cur < TARGET_LEN /\ snippet.words > SNIPPET_MIN_WORDS
                  THEN [st EXCEPT !.parts = Append(@, snippet.len + ELLIPSIS_LEN),
                                  !.brk = TRUE]
                  ELSE [st EXCEPT !.brk = TRUE]

\* "\n\n".join(concise_text_parts) with the fallbacks after it
FinalText(parts, paras) ==
    IF parts # <<>> /\ SumSeq(parts) + 2 * (Len(parts) - 1) > 0
    THEN [len |-> SumSeq(parts) + 2 * (Len(parts) - 1)]
    ELSE IF ContentLen(paras) > 0
         THEN [len |-> IF ContentLen(paras) > TARGET_LEN
                       THEN TARGET_LEN + ELLIPSIS_LEN ELSE ContentLen(paras)]
         ELSE [len |-> 3]       \* "N/A"

\* the whole loop, for the presenter
RECURSIVE RefineLoop(_, _)
RefineLoop(st, paras) ==
    IF paras = <<>> \/ st.brk THEN st
    ELSE RefineLoop(RefineStep(st, Head(paras)), Tail(paras))

RefinedText(paras) ==
    FinalText(RefineLoop([parts |-> <<>>, cur |-> 0, brk |-> FALSE], paras).parts, paras)

\* the stripped contents rank_sections keeps: longer than 150 characters, and
\* (being stripped) neither starting nor ending with a blank paragraph
KeptContents ==
    {c \in SeqsOf(ParaNames, 1, MaxParas) :
        /\ c[1] # "blank" /\ c[Len(c)] # "blank"
        /\ ContentLen([i \in 1..Len(c) |-> ParaKinds[c[i]]]) > MIN_CONTENT_LENGTH}

RefineInit ==
    /\ pc = "refine_loop"
    /\ \E c \in KeptContents : paragraphs = [i \in 1..Len(c) |-> ParaKinds[c[i]]]
    /\ para_i = 0 /\ concise_text_parts = <<>> /\ current_len = 0
    /\ loop_break = FALSE /\ final_refined_text = NoText
    /\ pages = <<>> /\ sections = <<>> /\ current_section = IdleSection
    /\ content_blocks = <<>> /\ page_idx = 0 /\ block_idx = 0
    /\ section = NoSection /\ label = "" /\ persona = ""
    /\ RankIdle
    /\ output_file = NotWritten

\* one iteration of "for para in paragraphs"
RefinePara ==
    /\ pc = "refine_loop"
    /\ para_i < Len(paragraphs)
    /\ ~loop_break
    /\ LET st == RefineStep([parts |-> concise_text_parts, cur |-> current_len,
                             brk |-> FALSE], paragraphs[para_i + 1])
       IN  /\ concise_text_parts' = st.parts
           /\ current_len' = st.cur
           /\ loop_break' = st.brk
    /\ para_i' = para_i + 1
    /\ UNCHANGED <<pc, paragraphs, final_refined_text, chunkVars, classifyVars, persona, output_file, rankVars>>

\* after the loop: join, flatten newlines, fall back
RefineFinish ==
    /\ pc = "refine_loop"
    /\ para_i = Len(paragraphs) \/ loop_break
    /\ final_refined_text' = FinalText(concise_text_parts, paragraphs)
    /\ pc' = "refine_done"
    /\ UNCHANGED <<paragraphs, para_i, concise_text_parts, current_len, loop_break,
                   chunkVars, classifyVars, persona, output_file, rankVars>>

RefineNext == RefinePara \/ RefineFinish

SpecRefine == RefineInit /\ [][RefineNext]_vars

\* ------------------------------------------------- properties of the excerpt

\* C10: the refined text of a selected section is at most the 220-character
\* target plus a trailing ellipsis, whatever the content.
C10_RefinedTextBounded ==
    pc = "refine_done" => final_refined_text.len <= 220 + 3

\* =========================================================================
\*  rank_sections.py : rank_sections
\* =========================================================================

MaxPool == 3           \* entries in the scored pool
MaxScore == 2          \* scores are 1..MaxScore

\* The texts pool sections hold: the words classify finds in them and their
\* paragraphs.  Each is longer than 150 characters.
Texts ==
    [ methods_text |-> [words |-> {"Methods"}, paras |-> <<"s160">>],
      tips_text    |-> [words |-> {"Tips"},    paras |-> <<"s50", "s160">>],
      city_text    |-> [words |-> {"City"},    paras |-> <<"s300">>] ]

TextIds == DOMAIN Texts

TextParas(t) == [i \in 1..Len(Texts[t].paras) |-> ParaKinds[Texts[t].paras[i]]]

RankPersonas == {"Travel Planner", "HR Professional"}

\* hash(sec_data["content"]): equal for equal texts, distinct for the texts drawn
ContentHash(t) == t

\* (sec_data["document"], sec_data["page_number"], hash(sec_data["content"]))
Identifier(sec) == <<sec.document, sec.page_number, ContentHash(sec.content)>>

PoolTitles == {{}}     \* pool sections are drawn with an empty title

\* classify(sec_data) for every persona and pool section text
ThemeTable ==
    [pers \in RankPersonas |-> [ti \in PoolTitles |-> [t \in TextIds |->
        Classify([title |-> ti, content |-> Texts[t].words], pers)]]]

\* classify(sec_data) for a pool section
Theme(sec) == ThemeTable[persona][sec.title][sec.content]

DEFAULT_STRICT_PRIORITY_THEMES ==
    << "methods_procedures_steps", "recommendations_solutions",
       "results_findings_data", "key_concepts_definitions",
       "examples_applications", "introduction_overview", "conclusion_summary",
       "travel_cities", "travel_activities", "travel_food",
       "travel_accommodation", "travel_tips_practical", "supplemental_info",
       "other_general" >>

\* list.index (0 when absent), list.remove, list.insert at a 0-based position
IndexOf(seq, x) ==
    IF x \in Range(seq) THEN CHOOSE i \in 1..Len(seq) : seq[i] = x /\ \A j \in 1..(i-1) : seq[j] # x
    ELSE 0

Remove(seq, x) ==
    LET i == IndexOf(seq, x)
    IN  IF i = 0 THEN seq ELSE SubSeq(seq, 1, i - 1) \o SubSeq(seq, i + 1, Len(seq))

InsertAt(seq, pos, x) == SubSeq(seq, 1, pos) \o <<x>> \o SubSeq(seq, pos + 1, Len(seq))

\* for theme in reversed(travel_priorities): move the theme to the front
RECURSIVE FloatToFront(_, _)
FloatToFront(themes, rev) ==
    IF rev = <<>> THEN themes
    ELSE FloatToFront(IF Head(rev) \in Range(themes)
                      THEN InsertAt(Remove(themes, Head(rev)), 0, Head(rev))
                      ELSE themes,
                      Tail(rev))

\* current_priority_themes, as built for a persona
BuildPriorityThemes(pers) ==
    IF ContainsTravelPlanner(PersonaLower[pers])
    THEN LET floated == FloatToFront(DEFAULT_STRICT_PRIORITY_THEMES,
                            <<"travel_accommodation", "travel_food",
                              "travel_activities", "travel_cities">>)
             without == Remove(floated, "travel_tips_practical")
             core == {"travel_accommodation", "travel_food", "travel_activities",
                      "travel_cities"} \cap Range(without)
             \* idx_after_core + 1, as a 0-based insertion position
             pos == IF core = {} THEN 0
                    ELSE CHOOSE n \in 1..Len(without) :
                            /\ without[n] \in core
                            /\ \A m \in (n+1)..Len(without) : without[m] \notin core
         IN  IF "travel_tips_practical" \in Range(floated)
             THEN InsertAt(without, pos, "travel_tips_practical")
             ELSE floated
    ELSE DEFAULT_STRICT_PRIORITY_THEMES

PriorityThemesTable == [pers \in RankPersonas |-> BuildPriorityThemes(pers)]

\* current_priority_themes
PriorityThemes(pers) == PriorityThemesTable[pers]

\* the inner loop of Pass 1 for one theme, over the pool entries rs, on
\* st = [best (<<>> for None, else <<entry>>), best_score, sec_identifier]
RECURSIVE Scan(_, _, _, _)
Scan(rs, theme, ids, st) ==
    IF rs = <<>> THEN st
    ELSE LET e == Head(rs)
             id == Identifier(e.sec)
             better == \/ st.best = <<>>
                       \/ e.score > st.best_score
                       \/ /\ e.score = st.best_score
                          /\ st.best[1].sec.document # e.sec.document
             st1 == [st EXCEPT !.sec_identifier = id]
         IN  Scan(Tail(rs), theme, ids,
                  IF id \notin ids /\ Theme(e.sec) = theme /\ better
                  THEN [st1 EXCEPT !.best = <<e>>, !.best_score = e.score]
                  ELSE st1)

\* the identifier Pass 1 adds to chosen_section_identifiers after a selection:
\* the variable sec_identifier as the scan left it
Pass1Marked(best, scanned_identifier) == scanned_identifier

\* sorted(xs, key=lambda x: -x[1]): stable, descending by score
RECURSIVE InsertByScore(_, _)
InsertByScore(sorted, e) ==
    IF sorted = <<>> THEN <<e>>
    ELSE IF Head(sorted).score >= e.score
         THEN <<Head(sorted)>> \o InsertByScore(Tail(sorted), e)
         ELSE <<e>> \o sorted

RECURSIVE SortedByScoreFrom(_, _)
SortedByScoreFrom(done, rest) ==
    IF rest = <<>> THEN done
    ELSE SortedByScoreFrom(InsertByScore(done, Head(rest)), Tail(rest))

\* mutant: the final sort is left out
SortedByScore_Unsorted(xs) == xs

SortedByScore(xs) == SortedByScoreFrom(<<>>, xs)

\* mutant: the backfill loop never checks the count
Pass2Break_Never(ch, max_count) == FALSE

\* "if len(chosen) >= max_sections_to_extract: break" in Pass 2
Pass2Break(ch, max_count) == Len(ch) >= max_count

\* ---- inputs: the pool is sorted by descending score, as db.search returns it
PoolSections ==
    [document : Range(Documents), page_number : {1}, title : PoolTitles, content : TextIds]

SortedDesc(xs) == \A i \in 1..(Len(xs) - 1) : xs[i].score >= xs[i + 1].score

RankInit ==
    /\ pc = "rank_start"
    /\ \E n \in 0..MaxPool : \E secs \in [1..n -> PoolSections] :
          \E scores \in [1..n -> 1..MaxScore] :
             LET pool == [i \in 1..n |-> [sec |-> secs[i], score |-> scores[i]]]
             IN  SortedDesc(pool) /\ results = pool
    /\ max_sections_to_extract \in 0..(MaxPool + 1)
    /\ persona \in RankPersonas
    /\ chosen = <<>> /\ chosen_section_identifiers = {} /\ sec_identifier = <<>>
    /\ theme_i = 0 /\ p2_i = 0 /\ extracted = <<>> /\ detailed = <<>>
    /\ pages = <<>> /\ sections = <<>> /\ current_section = IdleSection
    /\ content_blocks = <<>> /\ page_idx = 0 /\ block_idx = 0
    /\ section = NoSection /\ label = ""
    /\ RefineIdle
    /\ output_file = NotWritten

\* "if not filtered_sections: return [], []": nothing to search
RankEmptyReturn ==
    /\ pc = "rank_start"
    /\ results = <<>>
    /\ extracted' = <<>> /\ detailed' = <<>>
    /\ pc' = "rank_done"
    /\ UNCHANGED <<results, max_sections_to_extract, chosen, chosen_section_identifiers,
                   sec_identifier, theme_i, p2_i, persona, output_file, chunkVars, classifyVars,
                   refineVars>>

\* db.add_chunks, db.search, the theme tables: on to Pass 1
RankSearch ==
    /\ pc = "rank_start"
    /\ results # <<>>
    /\ pc' = "pass1"
    /\ UNCHANGED <<rankVars, persona, output_file, chunkVars, classifyVars, refineVars>>

\* Pass 1, one theme: scan the pool, append the best, mark an identifier
Pass1Theme ==
    /\ pc = "pass1"
    /\ theme_i < Len(PriorityThemes(persona))
    /\ Len(chosen) < max_sections_to_extract
    /\ LET st == Scan(results, PriorityThemes(persona)[theme_i + 1],
                      chosen_section_identifiers,
                      [best |-> <<>>, best_score |-> -1,
                       sec_identifier |-> sec_identifier])
       IN  /\ sec_identifier' = st.sec_identifier
           /\ IF st.best # <<>>
              THEN /\ chosen' = Append(chosen, st.best[1])
                   /\ chosen_section_identifiers' =
                        chosen_section_identifiers
                        \cup {Pass1Marked(st.best[1], st.sec_identifier)}
              ELSE UNCHANGED <<chosen, chosen_section_identifiers>>
    /\ theme_i' = theme_i + 1
    /\ UNCHANGED <<pc, results, max_sections_to_extract, p2_i, extracted, detailed,
                   persona, output_file, chunkVars, classifyVars, refineVars>>

\* Pass 1 ends (themes exhausted or the break); "if len(chosen) < max" decides
\* whether Pass 2 runs
Pass1Exit ==
    /\ pc = "pass1"
    /\ theme_i = Len(PriorityThemes(persona)) \/ Len(chosen) >= max_sections_to_extract
    /\ pc' = IF Len(chosen) < max_sections_to_extract THEN "pass2" ELSE "present"
    /\ UNCHANGED <<rankVars, persona, output_file, chunkVars, classifyVars, refineVars>>

\* Pass 2, one entry of results_sorted_by_score
Pass2Entry ==
    /\ pc = "pass2"
    /\ p2_i < Len(results)
    /\ ~Pass2Break(chosen, max_sections_to_extract)
    /\ LET e == SortedByScore(results)[p2_i + 1]
           id == Identifier(e.sec)
       IN  /\ sec_identifier' = id
           /\ IF id \notin chosen_section_identifiers
              THEN /\ chosen' = Append(chosen, e)
                   /\ chosen_section_identifiers' = chosen_section_identifiers \cup {id}
              ELSE UNCHANGED <<chosen, chosen_section_identifiers>>
    /\ p2_i' = p2_i + 1
    /\ UNCHANGED <<pc, results, max_sections_to_extract, theme_i, extracted, detailed,
                   persona, output_file, chunkVars, classifyVars, refineVars>>

\* Pass 2 ends (pool exhausted or the break)
Pass2Exit ==
    /\ pc = "pass2"
    /\ p2_i = Len(results) \/ Pass2Break(chosen, max_sections_to_extract)
    /\ pc' = "present"
    /\ UNCHANGED <<rankVars, persona, output_file, chunkVars, classifyVars, refineVars>>

\* the final sort and the two output lists (section_title, which
\* meaningful_title computes, is left out of the entries)
Present ==
    /\ pc = "present"
    /\ LET ranked == SortedByScore(chosen)
       IN  /\ chosen' = ranked
           /\ extracted' = [i \in 1..Len(ranked) |->
                              [document |-> ranked[i].sec.document,
                               importance_rank |-> i,
                               page_number |-> ranked[i].sec.page_number]]
           /\ detailed' = [i \in 1..Len(ranked) |->
                              [document |-> ranked[i].sec.document,
                               refined_text |-> RefinedText(TextParas(ranked[i].sec.content)),
                               page_number |-> ranked[i].sec.page_number]]
    /\ pc' = "rank_done"
    /\ UNCHANGED <<results, max_sections_to_extract, chosen_section_identifiers,
                   sec_identifier, theme_i, p2_i, persona, output_file, chunkVars, classifyVars,
                   refineVars>>

RankNext ==
    \/ RankEmptyReturn \/ RankSearch \/ Pass1Theme \/ Pass1Exit
    \/ Pass2Entry \/ Pass2Exit \/ Present

SpecRank == RankInit /\ [][RankNext]_vars

\* --------------------------------------------------- properties of the selector

\* C1: the selected list never holds two entries with the same identifier
\* (document, page_number, content).
C1_NoIdentifierTwice ==
    \A i, j \in 1..Len(chosen) :
        i # j => Identifier(chosen[i].sec) # Identifier(chosen[j].sec)

PoolIdentifiersDistinct ==
    \A i, j \in 1..Len(results) :
        i # j => Identifier(results[i].sec) # Identifier(results[j].sec)

\* C2: for a pool of pairwise distinct identifiers and max_count >= the pool
\* size, the selection has as many entries as the pool and holds every pool
\* section exactly once.
C2_WholePoolSelected ==
    (pc = "rank_done" /\ PoolIdentifiersDistinct
        /\ max_sections_to_extract >= Len(results))
    => /\ Len(chosen) = Len(results)
       /\ \A k \in 1..Len(results) :
             Cardinality({i \in 1..Len(chosen) : chosen[i] = results[k]}) = 1

\* C3: the selection never has more than max_sections_to_extract entries,
\* every entry is an entry of the pool, and max_count = 0 selects nothing.
C3_BoundedSubset ==
    /\ Len(chosen) <= max_sections_to_extract
    /\ \A i \in 1..Len(chosen) : chosen[i] \in Range(results)
    /\ max_sections_to_extract = 0 => chosen = <<>>
    /\ pc = "rank_done" => Len(extracted) <= max_sections_to_extract

\* the run ended with the selection cut at max_count, below the pool size,
\* after Pass 2 added to what Pass 1 chose
C3_Witness ==
    /\ pc = "rank_done"
    /\ Len(results) = 3
    /\ max_sections_to_extract = 2
    /\ Len(chosen) = 2
    /\ p2_i > 0

\* C4: extracted_sections is in non-increasing score order, importance_rank
\* counts 1..n in list order, and subsection_analysis has the same length with
\* the same document and page_number at each position.
C4_RankedOutput ==
    pc = "rank_done" =>
        /\ \A i \in 1..(Len(chosen) - 1) : chosen[i].score >= chosen[i + 1].score
        /\ Len(extracted) = Len(chosen)
        /\ \A i \in 1..Len(extracted) :
              /\ extracted[i].importance_rank = i
              /\ extracted[i].document = chosen[i].sec.document
              /\ extracted[i].page_number = chosen[i].sec.page_number
        /\ Len(detailed) = Len(extracted)
        /\ \A i \in 1..Len(detailed) :
              /\ detailed[i].document = extracted[i].document
              /\ detailed[i].page_number = extracted[i].page_number

\* Pass 1 chose the methods section before a higher-scoring recommendations
\* section of another document; the output lists the higher score first
C4_Witness ==
    /\ pc = "rank_done"
    /\ persona = "HR Professional"
    /\ Len(extracted) = 2
    /\ chosen[1].score > chosen[2].score
    /\ Theme(chosen[1].sec) = "recommendations_solutions"
    /\ Theme(chosen[2].sec) = "methods_procedures_steps"
    /\ extracted[1].document # extracted[2].document

\* the identifiers of the sections chosen so far
ChosenIdentifiers == {Identifier(chosen[i].sec) : i \in 1..Len(chosen)}

\* C12: a Pass 1 step for a theme, taken with fewer than max_count sections
\* chosen, adds the highest-scoring pool section of that theme among those not
\* already chosen, and only that one; it adds nothing only when every pool
\* section of the theme is already chosen.
C12_Pass1BestOfTheme ==
    [][ (/\ pc = "pass1"
         /\ theme_i < Len(PriorityThemes(persona))
         /\ Len(chosen) < max_sections_to_extract)
        =>
        LET theme == PriorityThemes(persona)[theme_i + 1]
            open == {k \in 1..Len(results) :
                        /\ Theme(results[k].sec) = theme
                        /\ Identifier(results[k].sec) \notin ChosenIdentifiers}
        IN  IF open = {}
            THEN chosen' = chosen
            ELSE /\ Len(chosen') = Len(chosen) + 1
                 /\ SubSeq(chosen', 1, Len(chosen)) = chosen
                 /\ \E k \in open : chosen'[Len(chosen')] = results[k]
                 /\ \A k \in open : results[k].score <= chosen'[Len(chosen')].score
      ]_vars

\* =========================================================================
\*  main.py : run_pipeline
\* =========================================================================

MaxRunSections == 2    \* sections split_into_sections hands to rank_sections

DESIRED_OUTPUT_SECTIONS == 10

\* A text too short for the length filter of rank_sections (50 characters)
ShortTexts ==
    [ short_text |-> [words |-> {"City"}, paras |-> <<"s50">>] ]

RunTextIds == TextIds \cup DOMAIN ShortTexts

\* len(s["content"].strip())
SectionLen(sec) ==
    LET ps == IF sec.content \in TextIds THEN Texts[sec.content].paras
              ELSE ShortTexts[sec.content].paras
    IN  ContentLen([i \in 1..Len(ps) |-> ParaKinds[ps[i]]])

\* len(s["content"].strip()) > 150
PassesFilter(sec) == SectionLen(sec) > MIN_CONTENT_LENGTH

\* mutant: the run goes on without pages
InputAbsent_Never(pgs) == FALSE

\* "if not pages"
InputAbsent(pgs) == pgs = <<>>

\* the lists split_into_sections can return for the pages: every section has
\* the document and page number of one of the pages (the builder itself is
\* modelled step by step under SpecChunk)
RunSectionLists(pgs) ==
    LET secs == [document : {pgs[i].document : i \in 1..Len(pgs)},
                 page_number : {pgs[i].page_number : i \in 1..Len(pgs)},
                 title : PoolTitles, content : RunTextIds]
    IN  UNION {[1..n -> secs] : n \in 0..MaxRunSections}

\* {p["document"] for p in pages}
InputDocs(pgs) == {pgs[i].document : i \in 1..Len(pgs)}

\* the dict json.dump writes (job and timestamp are left out)
Result(pgs, pers, extracted_sections, subsection_analysis) ==
    [metadata |-> [input_documents |-> InputDocs(pgs), persona |-> pers],
     extracted_sections |-> extracted_sections,
     subsection_analysis |-> subsection_analysis]

\* ---- inputs: the page records extract_text_from_pdf returned, none when the
\* input folder is missing or holds no readable PDF
MainInit ==
    /\ pc = "run_start"
    /\ \E n \in 0..MaxPages : \E ls \in PageLabels(n) :
          pages = CutPages(ls, [i \in 1..n |-> 1], [i \in 1..n |-> "B200"])
    /\ persona = "Travel Planner"
    /\ output_file = NotWritten
    /\ sections = <<>> /\ current_section = IdleSection
    /\ content_blocks = <<>> /\ page_idx = 0 /\ block_idx = 0
    /\ section = NoSection /\ label = ""
    /\ RefineIdle
    /\ RankIdle

\* "if not pages: ... return"
RunNoPages ==
    /\ pc = "run_start"
    /\ InputAbsent(pages)
    /\ pc' = "run_done"
    /\ UNCHANGED <<chunkVars, classifyVars, persona, refineVars, rankVars, output_file>>

\* sections = split_into_sections(pages)
RunSplit ==
    /\ pc = "run_start"
    /\ ~InputAbsent(pages)
    /\ sections' \in RunSectionLists(pages)
    /\ pc' = "run_split"
    /\ UNCHANGED <<pages, current_section, content_blocks, page_idx, block_idx,
                   classifyVars, persona, refineVars, rankVars, output_file>>

\* rank_sections(sections, persona, job, max_sections_to_extract=10) up to
\* db.search: the length filter, then the kept sections scored and returned
\* by descending score
RunRankCall ==
    /\ pc = "run_split"
    /\ max_sections_to_extract' = DESIRED_OUTPUT_SECTIONS
    /\ LET filtered_sections == SelectSeq(sections, PassesFilter)
       IN  \E scores \in [1..Len(filtered_sections) -> 1..MaxScore] :
              results' = SortedByScore([i \in 1..Len(filtered_sections) |->
                             [sec |-> filtered_sections[i], score |-> scores[i]]])
    /\ pc' = "rank_start"
    /\ UNCHANGED <<chosen, chosen_section_identifiers, sec_identifier, theme_i, p2_i,
                   extracted, detailed, chunkVars, classifyVars, persona, refineVars,
                   output_file>>

\* result = {...}; json.dump(result, f)
RunWrite ==
    /\ pc = "rank_done"
    /\ output_file' = Result(pages, persona, extracted, detailed)
    /\ pc' = "run_done"
    /\ UNCHANGED <<chunkVars, classifyVars, persona, refineVars, rankVars>>

MainNext ==
    \/ RunNoPages \/ RunSplit \/ RunRankCall
    \/ RankEmptyReturn \/ RankSearch \/ Pass1Theme \/ Pass1Exit
    \/ Pass2Entry \/ Pass2Exit \/ Present
    \/ RunWrite

SpecMain == MainInit /\ [][MainNext]_vars

\* --------------------------------------------------- properties of the run

\* C11: a run whose extraction returned no page record ends without writing
\* the output file; a run with pages of which no section is longer than 150
\* characters goes on to its end and writes the output file with
\* extracted_sections and subsection_analysis both empty.
C11_EmptyRuns ==
    /\ pages = <<>> => output_file = NotWritten /\ pc \in {"run_start", "run_done"}
    /\ (pages # <<>> /\ pc \notin {"run_start"}
          /\ \A i \in 1..Len(sections) : SectionLen(sections[i]) <= 150)
       => /\ pc # "run_done" => ENABLED MainNext
          /\ pc = "run_done" =>
                /\ output_file # NotWritten
                /\ output_file.extracted_sections = <<>>
                /\ output_file.subsection_analysis = <<>>

\* a run over two pages whose two sections are both too short ended with the
\* output file written and both lists empty
C11_Witness ==
    /\ pc = "run_done"
    /\ Len(pages) = 2
    /\ Len(sections) = 2
    /\ \A i \in 1..Len(sections) : ~PassesFilter(sections[i])
    /\ output_file # NotWritten
    /\ output_file.extracted_sections = <<>>
    /\ output_file.metadata.input_documents = {"a.pdf", "b.pdf"}

\* a run without pages ended and left the output file unwritten
C11_WitnessNoPages ==
    /\ pc = "run_done"
    /\ pages = <<>>
    /\ output_file = NotWritten

====
